---- MODULE Spec2Model ----
(***************************************************************************)
(* Model of the Provet discharge-note generator: the record mapper         *)
(* (provet/core/data_models.py), the file reader/writer                    *)
(* (provet/core/io_manager.py), the model-call service                     *)
(* (provet/core/llm_service.py), the facade (provet/core/app.py), the      *)
(* command line (provet/__main__.py), the configuration                    *)
(* (provet/utils/config.py) and the HTTP surface (api/main.py).            *)
(*                                                                         *)
(* Four specifications share the variables:                                *)
(*   Spec        the HTTP service: requests handled on one event loop,     *)
(*               the cleanup tasks of /upload running on worker threads;   *)
(*   SpecCli     one caller making process_file calls and runs of main()   *)
(*               one after the other;                                      *)
(*   SpecMap     ConsultationData.from_dict applied to an input document   *)
(*               and to_template_context applied to its record;            *)
(*   SpecConfig  ConfigurationManager() built from an environment.         *)
(***************************************************************************)
EXTENDS Integers, Sequences, FiniteSets, TLC

\* ------------------------------------------------------------------ bounds
NumRequests == 2
MaxCalls == 2
MaxNotes == 2
MaxItems == 2

\* ------------------------------------------------------- python-like values
\* JSON values are tagged so that values of different Python types compare.
JNull == [t |-> "null"]
JStr(s) == [t |-> "str", v |-> s]
JBool(b) == [t |-> "bool", v |-> b]
JInt(n) == [t |-> "int", v |-> n]
JList(s) == [t |-> "list", v |-> s]
JObj(f) == [t |-> "obj", v |-> f]
\* (a slip: a missing object read as None)
EmptyObj_none == JNull
EmptyObj == JObj(<<>>)
\* (a slip: a missing list read as None)
EmptyList_none == JNull
EmptyList == JList(<<>>)

IsObj(v) == v.t = "obj"

\* dict.get(key, default)
Get(o, k, d) == IF k \in DOMAIN o.v THEN o.v[k] ELSE d

\* str(e) of an exception and f-strings: a format with its arguments
Msg(fmt, args) == [fmt |-> fmt, args |-> args]
\* an exception, and one raised while handling another (its __context__)
Exc(type, msg) == [type |-> type, msg |-> msg, context |-> [t |-> "none"]]
Chained(type, msg, e) == [type |-> type, msg |-> msg, context |-> e]
Ok(v) == [ok |-> TRUE, val |-> v]
Raise(e) == [ok |-> FALSE, exc |-> e]

AttributeError(v) == Exc("AttributeError", Msg("'{}' object has no attribute 'get'", <<v.t>>))
TypeError(v) == Exc("TypeError", Msg("'{}' object is not iterable", <<v.t>>))

\* What a for loop over v iterates: the elements of a list, the keys of a
\* dict, the characters of a string (each a str); anything else is not iterable.
IsIterable(v) == v.t \in {"list", "obj", "str"}
KeySeq(f) == CHOOSE s \in [1..Cardinality(DOMAIN f) -> DOMAIN f] :
                \A k \in DOMAIN f : \E i \in DOMAIN s : s[i] = k
\* (a slip: the elements of a list taken last to first)
Items_reversed(v) ==
    CASE v.t = "list" -> [i \in DOMAIN v.v |-> v.v[Len(v.v) + 1 - i]]
      [] v.t = "obj" -> [i \in 1..Cardinality(DOMAIN v.v) |-> JStr(KeySeq(v.v)[i])]
      [] v.t = "str" -> IF v.v = "" THEN <<>> ELSE <<JStr(v.v)>>
Items(v) == CASE v.t = "list" -> v.v
              [] v.t = "obj" -> [i \in 1..Cardinality(DOMAIN v.v) |-> JStr(KeySeq(v.v)[i])]
              [] v.t = "str" -> IF v.v = "" THEN <<>> ELSE <<JStr(v.v)>>

\* ------------------------------------------------------------ data_models
ClinicalNote(note_data) ==
    [note |-> Get(note_data, "note", JStr("")),
     type |-> Get(note_data, "type", JStr("general"))]

\* (a slip: a quantity that is no positive integer replaced by 1)
Procedure_coerced(proc_data) ==
    LET q == Get(proc_data, "quantity", JInt(1)) IN
    [name |-> Get(proc_data, "name", JStr("")),
     date |-> Get(proc_data, "date", JNull),
     time |-> Get(proc_data, "time", JNull),
     code |-> Get(proc_data, "code", JNull),
     quantity |-> IF q.t = "int" /\ q.v > 0 THEN q ELSE JInt(1),
     total_price |-> Get(proc_data, "total_price", JNull),
     currency |-> Get(proc_data, "currency", JNull)]
Procedure(proc_data) ==
    [name |-> Get(proc_data, "name", JStr("")),
     date |-> Get(proc_data, "date", JNull),
     time |-> Get(proc_data, "time", JNull),
     code |-> Get(proc_data, "code", JNull),
     quantity |-> Get(proc_data, "quantity", JInt(1)),
     total_price |-> Get(proc_data, "total_price", JNull),
     currency |-> Get(proc_data, "currency", JNull)]

Medicine(med_data) ==
    [name |-> Get(med_data, "name", JStr("")),
     dosage |-> Get(med_data, "dosage", JNull),
     instructions |-> Get(med_data, "instructions", JNull)]

Prescription(rx_data) ==
    [name |-> Get(rx_data, "name", JStr("")),
     dosage |-> Get(rx_data, "dosage", JNull),
     instructions |-> Get(rx_data, "instructions", JNull),
     duration |-> Get(rx_data, "duration", JNull)]

Diagnostic(diag_data) ==
    [name |-> Get(diag_data, "name", JStr("")),
     result |-> Get(diag_data, "result", JNull),
     notes |-> Get(diag_data, "notes", JNull)]

\* (a slip: every field read without its default)
Patient_nodefaults(patient_data) ==
    [name |-> Get(patient_data, "name", JNull),
     species |-> Get(patient_data, "species", JNull),
     breed |-> Get(patient_data, "breed", JNull),
     gender |-> Get(patient_data, "gender", JNull),
     neutered |-> Get(patient_data, "neutered", JNull),
     date_of_birth |-> Get(patient_data, "date_of_birth", JNull),
     weight |-> Get(patient_data, "weight", JNull),
     microchip |-> Get(patient_data, "microchip", JNull)]
Patient(patient_data) ==
    [name |-> Get(patient_data, "name", JStr("")),
     species |-> Get(patient_data, "species", JStr("")),
     breed |-> Get(patient_data, "breed", JStr("")),
     gender |-> Get(patient_data, "gender", JStr("")),
     neutered |-> Get(patient_data, "neutered", JBool(FALSE)),
     date_of_birth |-> Get(patient_data, "date_of_birth", JStr("")),
     weight |-> Get(patient_data, "weight", JStr("")),
     microchip |-> Get(patient_data, "microchip", JNull)]

\* The first exception one of the mapping loops of from_dict raises over the
\* value v, or none: v is not iterable, or an element has no .get
LoopRaises(v) == ~IsIterable(v) \/ \E i \in DOMAIN Items(v) : ~IsObj(Items(v)[i])
LoopError(v) ==
    IF ~IsIterable(v) THEN TypeError(v)
    ELSE AttributeError(Items(v)[CHOOSE i \in DOMAIN Items(v) :
                                   /\ ~IsObj(Items(v)[i])
                                   /\ \A j \in 1..(i-1) : IsObj(Items(v)[j])])

from_dict(data) ==
    IF ~IsObj(data) THEN Raise(AttributeError(data)) ELSE
    LET patient_data == Get(data, "patient", EmptyObj) IN
    IF ~IsObj(patient_data) THEN Raise(AttributeError(patient_data)) ELSE
    LET consultation_data == Get(data, "consultation", EmptyObj) IN
    IF ~IsObj(consultation_data) THEN Raise(AttributeError(consultation_data)) ELSE
    LET notes_data == Get(consultation_data, "clinical_notes", EmptyList) IN
    IF LoopRaises(notes_data) THEN Raise(LoopError(notes_data)) ELSE
    LET treatment_items_data == Get(consultation_data, "treatment_items", EmptyObj) IN
    IF ~IsObj(treatment_items_data) THEN Raise(AttributeError(treatment_items_data)) ELSE
    LET procs_data == Get(treatment_items_data, "procedures", EmptyList)
        meds_data == Get(treatment_items_data, "medicines", EmptyList)
        rxs_data == Get(treatment_items_data, "prescriptions", EmptyList)
        diags_data == Get(consultation_data, "diagnostics", EmptyList)
    IN
    IF LoopRaises(procs_data) THEN Raise(LoopError(procs_data)) ELSE
    IF LoopRaises(meds_data) THEN Raise(LoopError(meds_data)) ELSE
    IF LoopRaises(rxs_data) THEN Raise(LoopError(rxs_data)) ELSE
    IF LoopRaises(diags_data) THEN Raise(LoopError(diags_data)) ELSE
    Ok([patient |-> Patient(patient_data),
        consultation |->
          [date |-> Get(consultation_data, "date", JStr("")),
           time |-> Get(consultation_data, "time", JStr("")),
           reason |-> Get(consultation_data, "reason", JStr("")),
           type |-> Get(consultation_data, "type", JStr("")),
           clinical_notes |->
             [i \in DOMAIN Items(notes_data) |-> ClinicalNote(Items(notes_data)[i])],
           treatment_items |->
             [procedures |->
                [i \in DOMAIN Items(procs_data) |-> Procedure(Items(procs_data)[i])],
              medicines |->
                [i \in DOMAIN Items(meds_data) |-> Medicine(Items(meds_data)[i])],
              prescriptions |->
                [i \in DOMAIN Items(rxs_data) |-> Prescription(Items(rxs_data)[i])],
              foods |-> Get(treatment_items_data, "foods", EmptyList),
              supplies |-> Get(treatment_items_data, "supplies", EmptyList)],
           diagnostics |->
             [i \in DOMAIN Items(diags_data) |-> Diagnostic(Items(diags_data)[i])]]])

\* (a slip: the procedures and medicines slots exchanged)
to_template_context_swapped(self) ==
    [patient |-> self.patient,
     consultation |-> self.consultation,
     clinical_notes |-> self.consultation.clinical_notes,
     procedures |-> self.consultation.treatment_items.medicines,
     medicines |-> self.consultation.treatment_items.procedures,
     prescriptions |-> self.consultation.treatment_items.prescriptions,
     diagnostics |-> self.consultation.diagnostics]
to_template_context(self) ==
    [patient |-> self.patient,
     consultation |-> self.consultation,
     clinical_notes |-> self.consultation.clinical_notes,
     procedures |-> self.consultation.treatment_items.procedures,
     medicines |-> self.consultation.treatment_items.medicines,
     prescriptions |-> self.consultation.treatment_items.prescriptions,
     diagnostics |-> self.consultation.diagnostics]

\* ------------------------------------------------------------------ paths
\* A file name is its dot-separated components, each a sequence of string
\* pieces: "a.json" is << <<"a">>, <<"json">> >>, ".json" is << <<>>, <<"json">> >>.
None == [t |-> "none"]
UPLOAD_DIR == "temp_uploads"
solution_dir == "solution"
PathOf(dir, name) == [dir |-> dir, name |-> name]

\* str.endswith(".json")
endswith_json(name) == Len(name) >= 2 /\ name[Len(name)] = <<"json">>

\* pathlib's PurePath.stem: the name up to its last dot, unless that dot is
\* the first or the last character of the name
stem(name) ==
    IF /\ Len(name) >= 2
       /\ name[Len(name)] # <<>>
       /\ ~(Len(name) = 2 /\ name[1] = <<>>)
    THEN SubSeq(name, 1, Len(name) - 1)
    ELSE name

\* f"{input_path.stem}_discharge.json"
discharge_name(st) ==
    SubSeq(st, 1, Len(st) - 1) \o <<st[Len(st)] \o <<"_discharge">>, <<"json">>>>

\* (a slip: the output put beside the input file)
output_path_beside_input(input_file, output_dir) ==
    PathOf(IF output_dir = None THEN input_file.dir ELSE output_dir.v,
           discharge_name(stem(input_file.name)))

\* output_dir / f"{input_path.stem}_discharge.json", output_dir being
\* Path(output_dir or config_manager.get("solution_dir"))
output_path_of(input_file, output_dir) ==
    PathOf(IF output_dir = None THEN solution_dir ELSE output_dir.v,
           discharge_name(stem(input_file.name)))

\* f"consultation_{id(request)}.json": id() is unique among live objects
temp_file_of(r) == PathOf(UPLOAD_DIR, << <<"consultation_", ToString(r)>>, <<"json">> >>)

\* ------------------------------------------------------------ file contents
\* The text of a file: the JSON encoding of a value, nothing yet (a file
\* just created or truncated), a write cut short, or text that is not JSON.
JsonText(value) == [raw |-> "json", value |-> value]
EmptyText == [raw |-> "empty", value |-> JNull]
PartialText == [raw |-> "partial", value |-> JNull]
GarbageText == [raw |-> "garbage", value |-> JNull]
\* bytes that are not text in the encoding the file is read in
BinaryText == [raw |-> "bytes", value |-> JNull]

JSONDecodeError == Exc("JSONDecodeError", Msg("Expecting value", <<>>))
UnicodeDecodeError ==
    Exc("UnicodeDecodeError", Msg("'{}' codec can't decode byte", <<"utf-8">>))
\* json.load(f) of a file opened in text mode
json_load(text) ==
    IF text.raw = "json" THEN Ok(text.value)
    ELSE IF text.raw = "bytes" THEN Raise(UnicodeDecodeError)
    ELSE Raise(JSONDecodeError)

\* ------------------------------------------------------------- io_manager
\* (a slip: no except Exception clause, what the mapper raises escapes)
load_consultation_data_unwrapped(files, file_path) ==
    IF file_path \notin DOMAIN files
    THEN Raise(Exc("FileNotFoundError", Msg("File {} not found.", <<file_path>>)))
    ELSE IF ~json_load(files[file_path]).ok
    THEN Raise(Exc("ValueError", Msg("File {} contains invalid JSON.", <<file_path>>)))
    ELSE from_dict(json_load(files[file_path]).val)

\* the three except clauses: FileNotFoundError, json.JSONDecodeError, Exception
load_consultation_data(files, file_path) ==
    IF file_path \notin DOMAIN files
    THEN Raise(Exc("FileNotFoundError", Msg("File {} not found.", <<file_path>>)))
    ELSE IF ~json_load(files[file_path]).ok
    THEN IF json_load(files[file_path]).exc.type = "JSONDecodeError"
         THEN Raise(Exc("ValueError",
                        Msg("File {} contains invalid JSON.", <<file_path>>)))
         ELSE Raise(Chained("ValueError",
                            Msg("Error loading consultation data: {}",
                                <<json_load(files[file_path]).exc.msg>>),
                            json_load(files[file_path]).exc))
    ELSE LET mapped == from_dict(json_load(files[file_path]).val) IN
         IF ~mapped.ok
         THEN Raise(Chained("ValueError",
                            Msg("Error loading consultation data: {}", <<mapped.exc.msg>>),
                            mapped.exc))
         ELSE mapped

\* (a slip: the envelope given a second key)
output_data_with_model(discharge_note) ==
    JObj([discharge_note |-> JStr(discharge_note), model |-> JStr("gpt-4o")])

\* output_data = {"discharge_note": discharge_note}
output_data(discharge_note) == JObj([discharge_note |-> JStr(discharge_note)])

SaveError(e) == Chained("ValueError", Msg("Error saving discharge note: {}", <<e.msg>>), e)

\* ------------------------------------------------------------ llm_service
custom_instruction == JStr("")
\* template.render(**context): the text of a template under a context
Rendered(template_name, context) == [tpl |-> template_name, ctx |-> context]
TemplateFailures == {Exc("TemplateNotFound", Msg("{}", <<"template">>)),
                     Exc("UndefinedError", Msg("{} is undefined", <<"template">>))}
\* (a slip: the user message put before the system message)
Messages_swapped(system_message, prompt) ==
    <<[role |-> "user", content |-> prompt],
      [role |-> "system", content |-> system_message]>>

\* messages=[{"role": "system", ...}, {"role": "user", ...}]
Messages(system_message, prompt) ==
    <<[role |-> "system", content |-> system_message],
      [role |-> "user", content |-> prompt]>>
\* the text the model returns for the messages, with or without surrounding
\* whitespace
Completion(messages, padded) == [of |-> messages, padded |-> padded]
strip(text) == [text EXCEPT !.padded = FALSE]
APIError == Exc("APIConnectionError", Msg("Connection error.", <<>>))
NoneStripError == Exc("AttributeError",
                      Msg("'{}' object has no attribute 'strip'", <<"NoneType">>))
\* (a slip: the exception let through without the wrapping)
GenerationError_bare(e) == e

\* except Exception as e: raise Exception(f"Error generating discharge note: {e}")
GenerationError(e) ==
    Chained("Exception", Msg("Error generating discharge note: {}", <<e.msg>>), e)

\* ---------------------------------------------------------------- app.py
\* (a slip: the exception re-raised as it is)
ProcessingError_reraised(file_path, e) == e

\* raise ValueError(f"Error processing file {file_path}: {e}")
ProcessingError(file_path, e) ==
    Chained("ValueError", Msg("Error processing file {}: {}", <<file_path, e.msg>>), e)

\* ------------------------------------------------------------------ state
VARIABLES
    fs,        \* the files on disk: path -> text
    dirs,      \* the directories that exist
    pc,        \* where each caller is in its handler / in process_file
    loc,       \* the local variables of each caller
    handle,    \* the file each caller has open for writing, if any
    result,    \* what process_file returned or raised to each caller
    resp,      \* the HTTP response produced for each request
    loop,      \* the request whose handler is running on the event loop
    apiCalls,  \* invocations of client.chat.completions.create per process_file call
    calls,     \* process_file calls made by the command-line caller
    snap,      \* the files on disk when the current command-line call began
    mapIn,     \* SpecMap: the document given to from_dict
    mapOut,    \* SpecMap: what from_dict returned
    mapCtx,    \* SpecMap: what to_template_context returned for that record
    run,       \* SpecCli: the command-line run of main(), its outputs and exit code
    env,       \* SpecConfig: the environment variables of the process
    config     \* SpecConfig: what ConfigurationManager() returned or raised

vars == <<fs, dirs, pc, loc, handle, result, resp, loop, apiCalls, calls, snap,
          mapIn, mapOut, mapCtx, run, env, config>>

Cli == 0
Requests == 1..NumRequests
Callers == {Cli} \cup Requests
Free == 0

InitLoc == [kind |-> "none", file_path |-> None, body |-> None, output_dir |-> None,
            consultation_data |-> None, context |-> None,
            system_message |-> None, prompt |-> None,
            discharge_note |-> None, output_path |-> None, cleanup |-> None]
NoResp == [status |-> 0]

\* the handlers are coroutines of one event loop: a handler runs from one
\* await to the next without another handler in between; the command-line
\* caller is a process of its own
CanRun(c) == c = Cli \/ loop = c

\* ------------------------------------------------------------ file system
exists(files, p) == p \in DOMAIN files
Remove(files, p) == [q \in DOMAIN files \ {p} |-> files[q]]
Put(files, p, text) == (p :> text) @@ files

\* unlink(p): the name goes; a handle opened on it writes to the dead inode
Unlinked(h, p) ==
    [c \in Callers |-> IF h[c] # None /\ h[c].path = p
                       THEN [h[c] EXCEPT !.valid = FALSE] ELSE h[c]]
\* open(p, "w"): creates or truncates
Opened(h, c, p) == [h EXCEPT ![c] = [path |-> p, valid |-> TRUE]]
\* the texts a write of text through caller c's handle can leave at the path
\* (written from offset 0: over a longer text written through another handle
\* in the meantime, the tail of that text stays)
WriteOutcomes(files, h, text) ==
    IF ~h.valid THEN {files}
    ELSE IF files[h.path].raw = "empty" \/ files[h.path] = text
    THEN {Put(files, h.path, text)}
    ELSE {Put(files, h.path, text), Put(files, h.path, GarbageText)}

\* ------------------------------------------------------------- input sets
DocA == JObj([patient |-> JObj([name |-> JStr("Max")]),
              consultation |-> JObj([clinical_notes |->
                  JList(<<JObj([note |-> JStr("Ate well")])>>)])])
DocB == JObj([patient |-> JObj([name |-> JStr("Luna")])])

NameAJson == << <<"a">>, <<"json">> >>
NameTxt == << <<"notes">>, <<"txt">> >>
UploadNames == {NameAJson, NameTxt}
UploadBodies == {JsonText(DocA), JsonText(DocB), GarbageText}
GenerateBodies == {DocA}

\* the input files of the command-line runs
CliFiles ==
    (PathOf("data", NameAJson) :> JsonText(DocA))
    @@ (PathOf("other", << <<"a">>, <<"txt">> >>) :> JsonText(DocB))
    @@ (PathOf("data", << <<"b">>, <<"tar">>, <<"json">> >>) :> JsonText(DocB))
    @@ (PathOf("data", << <<>>, <<"json">> >>) :> JsonText(DocA))
    @@ (PathOf("data", << <<"bad">>, <<"json">> >>) :> GarbageText)
    @@ (PathOf("data", << <<"list">>, <<"json">> >>) :> JsonText(EmptyList))
    @@ (PathOf("data", << <<"latin">>, <<"json">> >>) :> BinaryText)
CliPaths == DOMAIN CliFiles \cup {PathOf("data", << <<"missing">>, <<"json">> >>)}

\* ------------------------------------------- DischargeNoteGenerator.process_file
\* except Exception as e: raise ValueError(...); an exception of a direct
\* call of save_discharge_note reaches its caller as it is
PfRaise(c, e) ==
    /\ result' = [result EXCEPT ![c] = IF loc[c].kind = "save" THEN Raise(e)
                                       ELSE Raise(ProcessingError(loc[c].file_path, e))]
    /\ pc' = [pc EXCEPT ![c] = "pf_done"]
PfGoto(c, label) ==
    /\ pc' = [pc EXCEPT ![c] = label]
    /\ UNCHANGED result

\* consultation_data = self.io_manager.load_consultation_data(file_path)
Load(c) ==
    /\ pc[c] = "pf_load" /\ CanRun(c)
    /\ LET loaded == load_consultation_data(fs, loc[c].file_path) IN
         IF loaded.ok
         THEN /\ loc' = [loc EXCEPT ![c].consultation_data = loaded.val]
              /\ PfGoto(c, "pf_project")
         ELSE /\ PfRaise(c, loaded.exc)
              /\ UNCHANGED loc
    /\ UNCHANGED <<fs, dirs, handle, resp, loop, apiCalls, calls, snap, mapIn, mapOut, mapCtx, run, env, config>>

\* (a slip: the output file opened before the note is generated)
Project_opening_output(c) ==
    /\ pc[c] = "pf_project" /\ CanRun(c)
    /\ loc' = [loc EXCEPT ![c].context = to_template_context(loc[c].consultation_data)]
    /\ fs' = Put(fs, output_path_of(loc[c].file_path, None), EmptyText)
    /\ PfGoto(c, "gen_ctx")
    /\ UNCHANGED <<dirs, handle, resp, loop, apiCalls, calls, snap, mapIn, mapOut, mapCtx, run, env, config>>

\* context = consultation_data.to_template_context()
Project(c) ==
    /\ pc[c] = "pf_project" /\ CanRun(c)
    /\ loc' = [loc EXCEPT ![c].context = to_template_context(loc[c].consultation_data)]
    /\ PfGoto(c, "gen_ctx")
    /\ UNCHANGED <<fs, dirs, handle, resp, loop, apiCalls, calls, snap, mapIn, mapOut, mapCtx, run, env, config>>

\* LLMService.generate_discharge_note:
\* context["custom_instruction"] = config_manager.get("custom_instruction", "")
\* (a slip: the slot put into a fresh context instead of the projected one)
SetCustomInstruction_fresh_context(c) ==
    /\ pc[c] = "gen_ctx" /\ CanRun(c)
    /\ loc' = [loc EXCEPT ![c].context = ("custom_instruction" :> custom_instruction)]
    /\ PfGoto(c, "gen_system")
    /\ UNCHANGED <<fs, dirs, handle, resp, loop, apiCalls, calls, snap, mapIn, mapOut, mapCtx, run, env, config>>
SetCustomInstruction(c) ==
    /\ pc[c] = "gen_ctx" /\ CanRun(c)
    /\ loc' = [loc EXCEPT ![c].context =
                  ("custom_instruction" :> custom_instruction) @@ loc[c].context]
    /\ PfGoto(c, "gen_system")
    /\ UNCHANGED <<fs, dirs, handle, resp, loop, apiCalls, calls, snap, mapIn, mapOut, mapCtx, run, env, config>>

\* system_message = self.template_engine.render_template("system_message.j2", context)
RenderSystem(c) ==
    /\ pc[c] = "gen_system" /\ CanRun(c)
    /\ \/ /\ loc' = [loc EXCEPT ![c].system_message =
                        Rendered("system_message.j2", loc[c].context)]
          /\ PfGoto(c, "gen_prompt")
       \/ \E e \in TemplateFailures :
            /\ PfRaise(c, GenerationError(e))
            /\ UNCHANGED loc
    /\ UNCHANGED <<fs, dirs, handle, resp, loop, apiCalls, calls, snap, mapIn, mapOut, mapCtx, run, env, config>>

\* prompt = self.template_engine.render_template("discharge_prompt.j2", context)
RenderPrompt(c) ==
    /\ pc[c] = "gen_prompt" /\ CanRun(c)
    /\ \/ /\ loc' = [loc EXCEPT ![c].prompt =
                        Rendered("discharge_prompt.j2", loc[c].context)]
          /\ PfGoto(c, "gen_api")
       \/ \E e \in TemplateFailures :
            /\ PfRaise(c, GenerationError(e))
            /\ UNCHANGED loc
    /\ UNCHANGED <<fs, dirs, handle, resp, loop, apiCalls, calls, snap, mapIn, mapOut, mapCtx, run, env, config>>

\* (a slip: the model call tried again)
AfterModelError_retry == "retry"

\* where generate_discharge_note goes when the model call raises: its except
\* clause re-raises, there is no loop around the call
AfterModelError == "raise"

\* response = self.client.chat.completions.create(...);
\* return response.choices[0].message.content.strip()
CallModel(c) ==
    /\ pc[c] = "gen_api" /\ CanRun(c)
    /\ apiCalls' = [apiCalls EXCEPT ![c] = @ + 1]
    /\ \/ \E padded \in BOOLEAN :
            /\ loc' = [loc EXCEPT ![c].discharge_note =
                  strip(Completion(Messages(loc[c].system_message, loc[c].prompt),
                                   padded))]
            /\ PfGoto(c, "save_mkdir")
       \/ \E e \in {APIError, NoneStripError} :
            /\ IF AfterModelError = "raise"
               THEN PfRaise(c, GenerationError(e))
               ELSE PfGoto(c, "gen_api")
            /\ UNCHANGED loc
    /\ UNCHANGED <<fs, dirs, handle, resp, loop, calls, snap, mapIn, mapOut, mapCtx, run, env, config>>

\* IOManager.save_discharge_note(discharge_note, file_path):
\* output_path = output_dir / f"{input_path.stem}_discharge.json";
\* output_dir.mkdir(exist_ok=True), outside the try of save_discharge_note
MkdirError == Exc("PermissionError", Msg("Permission denied: {}", <<"output_dir">>))
SaveMkdir(c) ==
    /\ pc[c] = "save_mkdir" /\ CanRun(c)
    /\ \/ /\ loc' = [loc EXCEPT ![c].output_path =
                        output_path_of(loc[c].file_path, loc[c].output_dir)]
          /\ dirs' = dirs \cup {output_path_of(loc[c].file_path, loc[c].output_dir).dir}
          /\ PfGoto(c, "save_open")
       \/ /\ output_path_of(loc[c].file_path, loc[c].output_dir).dir \notin dirs
          /\ PfRaise(c, MkdirError)
          /\ UNCHANGED <<loc, dirs>>
    /\ UNCHANGED <<fs, handle, resp, loop, apiCalls, calls, snap, mapIn, mapOut, mapCtx, run, env, config>>

\* with output_path.open("w") as f:
OpenError == Exc("PermissionError", Msg("Permission denied: {}", <<"output_path">>))
\* (a slip: the output file opened without truncating it)
SaveOpen_appending(c) ==
    /\ pc[c] = "save_open" /\ CanRun(c)
    /\ fs' = IF exists(fs, loc[c].output_path) THEN fs
              ELSE Put(fs, loc[c].output_path, EmptyText)
    /\ handle' = Opened(handle, c, loc[c].output_path)
    /\ PfGoto(c, "save_dump")
    /\ UNCHANGED <<dirs, loc, resp, loop, apiCalls, calls, snap, mapIn, mapOut, mapCtx, run, env, config>>

SaveOpen(c) ==
    /\ pc[c] = "save_open" /\ CanRun(c)
    /\ \/ /\ fs' = Put(fs, loc[c].output_path, EmptyText)
          /\ handle' = Opened(handle, c, loc[c].output_path)
          /\ PfGoto(c, "save_dump")
       \/ /\ PfRaise(c, SaveError(OpenError))
          /\ UNCHANGED <<fs, handle>>
    /\ UNCHANGED <<dirs, loc, resp, loop, apiCalls, calls, snap, mapIn, mapOut, mapCtx, run, env, config>>

\* json.dump(output_data, f, indent=4); return output_path
\* and in process_file: return str(output_path)
DumpError == Exc("OSError", Msg("No space left on device", <<>>))
SaveDump(c) ==
    /\ pc[c] = "save_dump" /\ CanRun(c)
    /\ \/ /\ fs' \in WriteOutcomes(fs, handle[c],
                                   JsonText(output_data(loc[c].discharge_note)))
          /\ result' = [result EXCEPT ![c] = Ok(loc[c].output_path)]
          /\ pc' = [pc EXCEPT ![c] = "pf_done"]
       \/ /\ fs' \in WriteOutcomes(fs, handle[c], PartialText)
          /\ PfRaise(c, SaveError(DumpError))
    /\ handle' = [handle EXCEPT ![c] = None]
    /\ UNCHANGED <<dirs, loc, resp, loop, apiCalls, calls, snap, mapIn, mapOut, mapCtx, run, env, config>>

ProcessFileStep(c) ==
    \/ Load(c) \/ Project(c) \/ SetCustomInstruction(c) \/ RenderSystem(c)
    \/ RenderPrompt(c) \/ CallModel(c) \/ SaveMkdir(c) \/ SaveOpen(c) \/ SaveDump(c)

\* ------------------------------------------------------------- api/main.py
HTTPException(status_code, detail) ==
    [type |-> "HTTPException", status_code |-> status_code, detail |-> detail,
     msg |-> Msg("{}: {}", <<ToString(status_code), detail>>), context |-> None]
OnlyJson == Msg("Only JSON files are supported", <<>>)
\* (a slip: the error answered without its message)
ErrorResponse_generic(e) == [status |-> 500, detail |-> Msg("Internal Server Error", <<>>)]

\* except Exception as e: raise HTTPException(status_code=500, detail=str(e))
ErrorResponse(e) == [status |-> 500, detail |-> e.msg]
\* DischargeNoteResponse(discharge_note=...)
DischargeNoteResponse(note) == [status |-> 200, discharge_note |-> note]

\* with output_path.open("r") as f: output_data = json.load(f)
\* ... output_data["discharge_note"]
ReadNote(files, output_path) ==
    IF ~exists(files, output_path)
    THEN Raise(Exc("FileNotFoundError", Msg("No such file or directory: {}", <<output_path>>)))
    ELSE IF ~json_load(files[output_path]).ok THEN Raise(json_load(files[output_path]).exc)
    ELSE LET data == json_load(files[output_path]).val IN
         IF ~IsObj(data) \/ "discharge_note" \notin DOMAIN data.v
         THEN Raise(Exc("KeyError", Msg("{}", <<"discharge_note">>)))
         ELSE Ok(data.v["discharge_note"].v)

\* POST /generate: the request body is written to temp_file and process_file
\* is called on it
GenerateStart(r, data) ==
    /\ pc[r] = "idle" /\ loop = Free
    /\ loop' = r
    /\ loc' = [loc EXCEPT ![r] = [InitLoc EXCEPT !.kind = "generate",
                                                 !.file_path = temp_file_of(r),
                                                 !.body = data]]
    /\ fs' = Put(fs, temp_file_of(r), JsonText(data))
    /\ pc' = [pc EXCEPT ![r] = "pf_load"]
    /\ UNCHANGED <<dirs, handle, result, resp, apiCalls, calls, snap, mapIn, mapOut, mapCtx, run, env, config>>

\* POST /generate: the output of process_file is read back
GenerateRead(r) ==
    /\ pc[r] = "pf_done" /\ loc[r].kind = "generate" /\ loop = r
    /\ IF ~result[r].ok
       THEN /\ resp' = [resp EXCEPT ![r] = ErrorResponse(result[r].exc)]
            /\ UNCHANGED loc
       ELSE /\ loc' = [loc EXCEPT ![r].output_path = result[r].val]
            /\ LET note == ReadNote(fs, result[r].val) IN
                 resp' = [resp EXCEPT ![r] = IF note.ok
                                             THEN DischargeNoteResponse(note.val)
                                             ELSE ErrorResponse(note.exc)]
    /\ pc' = [pc EXCEPT ![r] = "g_finally"]
    /\ UNCHANGED <<fs, dirs, handle, result, loop, apiCalls, calls, snap, mapIn, mapOut, mapCtx, run, env, config>>

\* POST /generate, finally: both files are removed when they exist
GenerateFinally(r) ==
    /\ pc[r] = "g_finally" /\ loop = r
    /\ LET f1 == IF exists(fs, loc[r].file_path) THEN Remove(fs, loc[r].file_path) ELSE fs
           out == loc[r].output_path
       IN fs' = IF out # None /\ exists(f1, out) THEN Remove(f1, out) ELSE f1
    /\ handle' = IF loc[r].output_path # None
                 THEN Unlinked(Unlinked(handle, loc[r].file_path), loc[r].output_path)
                 ELSE Unlinked(handle, loc[r].file_path)
    /\ loop' = Free
    /\ pc' = [pc EXCEPT ![r] = "done"]
    /\ UNCHANGED <<dirs, loc, result, resp, apiCalls, calls, snap, mapIn, mapOut, mapCtx, run, env, config>>

\* (a slip: the upload saved before its name is checked)
UploadReject_after_write(r, filename) ==
    /\ pc[r] = "idle" /\ loop = Free
    /\ ~endswith_json(filename)
    /\ loc' = [loc EXCEPT ![r] = [InitLoc EXCEPT !.kind = "upload",
                                                 !.file_path = PathOf(UPLOAD_DIR, filename)]]
    /\ fs' = Put(fs, PathOf(UPLOAD_DIR, filename), GarbageText)
    /\ resp' = [resp EXCEPT ![r] =
                  ErrorResponse(HTTPException(400, OnlyJson))]
    /\ pc' = [pc EXCEPT ![r] = "done"]
    /\ UNCHANGED <<dirs, handle, result, loop, apiCalls, calls, snap, mapIn, mapOut, mapCtx, run, env, config>>

\* POST /upload with a name that does not end in ".json": the HTTPException
\* raised by the check is caught by the handler's own except Exception
UploadReject(r, filename) ==
    /\ pc[r] = "idle" /\ loop = Free
    /\ ~endswith_json(filename)
    /\ loc' = [loc EXCEPT ![r] = [InitLoc EXCEPT !.kind = "upload",
                                                 !.file_path = PathOf(UPLOAD_DIR, filename)]]
    /\ resp' = [resp EXCEPT ![r] =
                  ErrorResponse(HTTPException(400, OnlyJson))]
    /\ pc' = [pc EXCEPT ![r] = "done"]
    /\ UNCHANGED <<fs, dirs, handle, result, loop, apiCalls, calls, snap, mapIn, mapOut, mapCtx, run, env, config>>

\* POST /upload: file_path.open("wb"), up to the await of file.read()
UploadOpen(r, filename, body) ==
    /\ pc[r] = "idle" /\ loop = Free
    /\ endswith_json(filename)
    /\ loc' = [loc EXCEPT ![r] = [InitLoc EXCEPT !.kind = "upload",
                                                 !.file_path = PathOf(UPLOAD_DIR, filename),
                                                 !.body = body]]
    /\ fs' = Put(fs, PathOf(UPLOAD_DIR, filename), EmptyText)
    /\ handle' = Opened(handle, r, PathOf(UPLOAD_DIR, filename))
    /\ pc' = [pc EXCEPT ![r] = "u_await"]
    /\ UNCHANGED <<dirs, result, resp, loop, apiCalls, calls, snap, mapIn, mapOut, mapCtx, run, env, config>>

\* POST /upload: f.write(content) and the end of the with block; the handler
\* then runs to its end without another await
UploadWrite(r) ==
    /\ pc[r] = "u_await" /\ loop = Free
    /\ loop' = r
    /\ fs' \in WriteOutcomes(fs, handle[r], loc[r].body)
    /\ handle' = [handle EXCEPT ![r] = None]
    /\ pc' = [pc EXCEPT ![r] = "pf_load"]
    /\ UNCHANGED <<dirs, loc, result, resp, apiCalls, calls, snap, mapIn, mapOut, mapCtx, run, env, config>>

\* POST /upload: the output is read back, cleanup_files is added to the
\* background tasks and the response returned; an exception skips all of it
UploadRead(r) ==
    /\ pc[r] = "pf_done" /\ loc[r].kind = "upload" /\ loop = r
    /\ loop' = Free
    /\ IF ~result[r].ok
       THEN /\ resp' = [resp EXCEPT ![r] = ErrorResponse(result[r].exc)]
            /\ pc' = [pc EXCEPT ![r] = "done"]
            /\ UNCHANGED loc
       ELSE /\ loc' = [loc EXCEPT ![r].output_path = result[r].val]
            /\ LET note == ReadNote(fs, result[r].val) IN
                 IF note.ok
                 THEN /\ resp' = [resp EXCEPT ![r] = DischargeNoteResponse(note.val)]
                      /\ pc' = [pc EXCEPT ![r] = "cl_in_exists"]
                 ELSE /\ resp' = [resp EXCEPT ![r] = ErrorResponse(note.exc)]
                      /\ pc' = [pc EXCEPT ![r] = "done"]
    /\ UNCHANGED <<fs, dirs, handle, result, apiCalls, calls, snap, mapIn, mapOut, mapCtx, run, env, config>>

\* cleanup_files(input_path, output_path), run on a worker thread after the
\* response: if p.exists(): p.unlink(), for both paths, inside one try.
\* How the call ended: what it logged and what it raised
CleanupReturn == [logged |-> None, raised |-> None]
UnlinkError(p) == Exc("FileNotFoundError", Msg("No such file or directory: {}", <<p>>))

\* (a slip: the deletions without a try around them)
CleanupExcept_raising(e) == [logged |-> None, raised |-> e.msg]

\* except Exception as e: logger.error(f"Error cleaning up files: {e}")
CleanupExcept(e) ==
    [logged |-> Msg("Error cleaning up files: {}", <<e.msg>>), raised |-> None]

CleanupExists(r, at, p, unlink, skip) ==
    /\ pc[r] = at
    /\ pc' = [pc EXCEPT ![r] = IF exists(fs, p) THEN unlink ELSE skip]
    /\ loc' = IF ~exists(fs, p) /\ skip = "done"
              THEN [loc EXCEPT ![r].cleanup = CleanupReturn] ELSE loc
    /\ UNCHANGED <<fs, dirs, handle, result, resp, loop, apiCalls, calls, snap,
                   mapIn, mapOut, mapCtx, run, env, config>>
\* unlink of a file that is gone since exists() raises FileNotFoundError:
\* logged, and cleanup_files ends there
CleanupUnlink(r, at, p, next) ==
    /\ pc[r] = at
    /\ IF exists(fs, p)
       THEN /\ fs' = Remove(fs, p)
            /\ handle' = Unlinked(handle, p)
            /\ pc' = [pc EXCEPT ![r] = next]
            /\ loc' = IF next = "done"
                      THEN [loc EXCEPT ![r].cleanup = CleanupReturn] ELSE loc
       ELSE /\ pc' = [pc EXCEPT ![r] = "done"]
            /\ loc' = [loc EXCEPT ![r].cleanup = CleanupExcept(UnlinkError(p))]
            /\ UNCHANGED <<fs, handle>>
    /\ UNCHANGED <<dirs, result, resp, loop, apiCalls, calls, snap, mapIn, mapOut, mapCtx, run, env, config>>

CleanupInputExists(r) ==
    CleanupExists(r, "cl_in_exists", loc[r].file_path, "cl_in_unlink", "cl_out_exists")
CleanupInputUnlink(r) ==
    CleanupUnlink(r, "cl_in_unlink", loc[r].file_path, "cl_out_exists")
CleanupOutputExists(r) ==
    CleanupExists(r, "cl_out_exists", loc[r].output_path, "cl_out_unlink", "done")
CleanupOutputUnlink(r) ==
    CleanupUnlink(r, "cl_out_unlink", loc[r].output_path, "done")

\* ------------------------------------------------------- command-line caller
\* the previous call or run of the command-line caller has ended
CallerReady ==
    \/ pc[Cli] \in {"idle", "main_done"}
    \/ pc[Cli] = "pf_done" /\ loc[Cli].kind # "main"

\* a call of process_file(file_path), after the previous one has ended
CliCall(file_path) ==
    /\ CallerReady
    /\ calls < MaxCalls
    /\ calls' = calls + 1
    /\ loc' = [loc EXCEPT ![Cli] = [InitLoc EXCEPT !.kind = "cli",
                                                   !.file_path = file_path]]
    /\ result' = [result EXCEPT ![Cli] = None]
    /\ apiCalls' = [apiCalls EXCEPT ![Cli] = 0]
    /\ snap' = fs
    /\ pc' = [pc EXCEPT ![Cli] = "pf_load"]
    /\ run' = None
    /\ UNCHANGED <<fs, dirs, handle, resp, loop, mapIn, mapOut, mapCtx, env, config>>

\* a direct call of IOManager.save_discharge_note(discharge_note, input_file,
\* output_dir), after the previous call has ended
SaveCall(discharge_note, input_file, output_dir) ==
    /\ CallerReady
    /\ calls < MaxCalls
    /\ calls' = calls + 1
    /\ loc' = [loc EXCEPT ![Cli] = [InitLoc EXCEPT !.kind = "save",
                                                   !.file_path = input_file,
                                                   !.output_dir = output_dir,
                                                   !.discharge_note = discharge_note]]
    /\ result' = [result EXCEPT ![Cli] = None]
    /\ apiCalls' = [apiCalls EXCEPT ![Cli] = 0]
    /\ snap' = fs
    /\ pc' = [pc EXCEPT ![Cli] = "save_mkdir"]
    /\ run' = None
    /\ UNCHANGED <<fs, dirs, handle, resp, loop, mapIn, mapOut, mapCtx, env, config>>

\* -------------------------------------------------------------- __main__.py
\* config_manager.get("templates_dir")
templates_dir == "templates"

\* the command lines of the runs: the positional file, --template-dir and
\* --output-dir, each given or not
CommandLines ==
    {[file |-> PathOf("data", NameAJson), template_dir |-> None, output_dir |-> None],
     [file |-> PathOf("data", NameAJson),
      template_dir |-> [t |-> "dir", v |-> "custom_templates"], output_dir |-> None],
     [file |-> PathOf("data", NameAJson), template_dir |-> None,
      output_dir |-> [t |-> "dir", v |-> "out"]],
     [file |-> PathOf("data", << <<"missing">>, <<"json">> >>), template_dir |-> None,
      output_dir |-> None],
     [file |-> None, template_dir |-> None, output_dir |-> None]}

\* parser.parse_args(): the namespace, or argparse's exit with status 2 and a
\* usage message when the positional argument is missing
UsageError == Msg("the following arguments are required: {}", <<"file">>)
parse_args(argv) ==
    IF argv.file = None THEN Raise(Exc("SystemExit", UsageError)) ELSE Ok(argv)

\* what DischargeNoteGenerator() can raise: openai.OpenAI(...) in LLMService
ClientError == Exc("OpenAIError", Msg("The client could not be created", <<>>))
\* generator.update_template_dir: DischargeNoteGenerator has no such attribute
NoUpdateTemplateDir ==
    Exc("AttributeError",
        Msg("'{}' object has no attribute '{}'",
            <<"DischargeNoteGenerator", "update_template_dir">>))

\* a run of main(): the parsed arguments, the templates directory of the
\* generator's template engine, what was printed and the exit status
NewRun(args) ==
    [args |-> args, templates_dir |-> None, stdout |-> None, stderr |-> None,
     code |-> None]

\* (a slip: the error branch returns 1 without printing)
MainExcept_silent(e) ==
    [stdout |-> None, stderr |-> None, code |-> JInt(1)]

\* except Exception as e: print(f"Error: {e}", file=sys.stderr); return 1
MainExcept(e) ==
    [stdout |-> None, stderr |-> Msg("Error: {}", <<e.msg>>), code |-> JInt(1)]
\* print(f"Discharge note successfully generated and saved to {output_path}")
\* return 0
MainReturn(output_path) ==
    [stdout |-> Msg("Discharge note successfully generated and saved to {}",
                    <<output_path>>),
     stderr |-> None, code |-> JInt(0)]
Exit(outcome) ==
    /\ run' = [run EXCEPT !.stdout = outcome.stdout, !.stderr = outcome.stderr,
                          !.code = outcome.code]
    /\ pc' = [pc EXCEPT ![Cli] = "main_done"]

\* args = parse_args(), the first statement of main(), outside its try
MainStart(argv) ==
    /\ CallerReady
    /\ calls < MaxCalls
    /\ calls' = calls + 1
    /\ loc' = [loc EXCEPT ![Cli] = [InitLoc EXCEPT !.kind = "main"]]
    /\ result' = [result EXCEPT ![Cli] = None]
    /\ apiCalls' = [apiCalls EXCEPT ![Cli] = 0]
    /\ snap' = fs
    /\ IF parse_args(argv).ok
       THEN /\ run' = NewRun(parse_args(argv).val)
            /\ pc' = [pc EXCEPT ![Cli] = "main_create"]
       ELSE /\ run' = [NewRun(None) EXCEPT !.stderr = parse_args(argv).exc.msg,
                                           !.code = JInt(2)]
            /\ pc' = [pc EXCEPT ![Cli] = "main_done"]
    /\ UNCHANGED <<fs, dirs, handle, resp, loop, mapIn, mapOut, mapCtx, env, config>>

\* generator = create_discharge_note_generator()
MainCreate(created) ==
    /\ pc[Cli] = "main_create"
    /\ IF created
       THEN /\ run' = [run EXCEPT !.templates_dir = [t |-> "dir", v |-> templates_dir]]
            /\ pc' = [pc EXCEPT ![Cli] = "main_tpl"]
       ELSE Exit(MainExcept(ClientError))
    /\ UNCHANGED <<fs, dirs, loc, handle, result, resp, loop, apiCalls, calls, snap,
                   mapIn, mapOut, mapCtx, env, config>>

\* if args.template_dir: generator.update_template_dir(args.template_dir)
\* and then the call generator.process_file(args.file)
MainTemplateDir ==
    /\ pc[Cli] = "main_tpl"
    /\ IF run.args.template_dir # None
       THEN /\ Exit(MainExcept(NoUpdateTemplateDir))
            /\ UNCHANGED loc
       ELSE /\ loc' = [loc EXCEPT ![Cli].file_path = run.args.file]
            /\ pc' = [pc EXCEPT ![Cli] = "pf_load"]
            /\ UNCHANGED run
    /\ UNCHANGED <<fs, dirs, handle, result, resp, loop, apiCalls, calls, snap,
                   mapIn, mapOut, mapCtx, env, config>>

\* print() of the confirmation, whose text is not ASCII, on a standard
\* output whose encoding cannot hold it (standard error escapes instead)
PrintError ==
    Exc("UnicodeEncodeError", Msg("'{}' codec can't encode character", <<"stdout">>))

\* process_file has returned or raised: print and return the exit status
MainEnd(printed) ==
    /\ pc[Cli] = "pf_done" /\ loc[Cli].kind = "main"
    /\ IF result[Cli].ok
       THEN IF printed THEN Exit(MainReturn(result[Cli].val))
                       ELSE Exit(MainExcept(PrintError))
       ELSE Exit(MainExcept(result[Cli].exc))
    /\ UNCHANGED <<fs, dirs, loc, handle, result, resp, loop, apiCalls, calls, snap,
                   mapIn, mapOut, mapCtx, env, config>>

\* ----------------------------------------------------------- utils/config.py
\* os.getenv(name, default)
getenv(environ, name, default) ==
    IF name \in DOMAIN environ THEN JStr(environ[name]) ELSE default

\* load_dotenv(): the variables of the .env file are added to the
\* environment, a variable that is already set keeps its value
load_dotenv(environ, dotenv) ==
    [k \in DOMAIN environ \cup DOMAIN dotenv |->
        IF k \in DOMAIN environ THEN environ[k] ELSE dotenv[k]]

\* float(s) and int(s) over the strings of the model: the value in tenths,
\* the value, or ValueError
FloatTenths == ("0.7" :> 7) @@ ("0.2" :> 2) @@ ("800" :> 8000) @@ ("100" :> 1000)
IntValue == ("800" :> 800) @@ ("100" :> 100)
float_of(s) ==
    IF s.v \in DOMAIN FloatTenths THEN Ok([t |-> "float", tenths |-> FloatTenths[s.v]])
    ELSE Raise(Exc("ValueError", Msg("could not convert string to float: '{}'", <<s.v>>)))
int_of(s) ==
    IF s.v \in DOMAIN IntValue THEN Ok(JInt(IntValue[s.v]))
    ELSE Raise(Exc("ValueError",
                   Msg("invalid literal for int() with base 10: '{}'", <<s.v>>)))

ApiKeyNotSet ==
    Msg("OPENAI_API_KEY environment variable is not set. Please set it in your environment or create a .env file.", <<>>)

\* (a slip: only a missing key is refused, an empty one passes)
validate_config_unset_only(settings) ==
    IF settings.api_key = JNull THEN Raise(Exc("ValueError", ApiKeyNotSet))
    ELSE Ok(settings)

\* _validate_config: if not self.config.get("api_key"): raise ValueError(...)
validate_config(settings) ==
    IF settings.api_key = JNull \/ settings.api_key = JStr("")
    THEN Raise(Exc("ValueError", ApiKeyNotSet))
    ELSE Ok(settings)

\* ConfigurationManager() over the environment load_dotenv() left: the
\* config dict is built entry by entry, then validated
ConfigurationManager(environ) ==
    LET temperature == float_of(getenv(environ, "TEMPERATURE", JStr("0.7")))
        max_tokens == int_of(getenv(environ, "MAX_TOKENS", JStr("800")))
    IN
    IF ~temperature.ok THEN Raise(temperature.exc) ELSE
    IF ~max_tokens.ok THEN Raise(max_tokens.exc) ELSE
    validate_config([api_key |-> getenv(environ, "OPENAI_API_KEY", JNull),
                     model |-> getenv(environ, "OPENAI_MODEL", JStr("gpt-4o")),
                     temperature |-> temperature.val,
                     max_tokens |-> max_tokens.val,
                     custom_instruction |->
                         getenv(environ, "CUSTOM_SYSTEM_INSTRUCTION", JStr("")),
                     templates_dir |-> templates_dir,
                     solution_dir |-> solution_dir])

\* the values the environment variables take when they are set
EnvValues ==
    [OPENAI_API_KEY |-> {"", "sk-test"},
     OPENAI_MODEL |-> {"gpt-4o-mini"},
     TEMPERATURE |-> {"0.2", "hot"},
     MAX_TOKENS |-> {"100", "0.2"},
     CUSTOM_SYSTEM_INSTRUCTION |-> {"Be brief"}]
Environs ==
    UNION {{e \in [S -> UNION {EnvValues[k] : k \in DOMAIN EnvValues}] :
               \A k \in S : e[k] \in EnvValues[k]} : S \in SUBSET DOMAIN EnvValues}
DotenvFiles == {<<>>, [OPENAI_API_KEY |-> "sk-file"]}

\* config_manager = ConfigurationManager(), at the import of the module
Construct ==
    /\ env # None /\ config = None
    /\ env' = [env EXCEPT !.environ = load_dotenv(env.environ, env.dotenv)]
    /\ config' = ConfigurationManager(load_dotenv(env.environ, env.dotenv))
    /\ UNCHANGED <<fs, dirs, pc, loc, handle, result, resp, loop, apiCalls, calls, snap,
                   mapIn, mapOut, mapCtx, run>>

\* ------------------------------------------------------------ mapper alone
NoteObjects ==
    {EmptyObj,
     JObj([note |-> JStr("Ate well")]),
     JObj([note |-> JStr("Ate well"), type |-> JStr("")]),
     JObj([note |-> JStr("Ate well"), type |-> JNull]),
     JObj([note |-> JStr("Stable"), type |-> JStr("assessment")])}
NoteLists == UNION {[1..n -> NoteObjects] : n \in 0..MaxNotes}
PatientObjects == {EmptyObj, JObj([name |-> JStr("Max"), neutered |-> JBool(TRUE)])}
\* the dict holding the keys S of the dict f
Sub(f, S) == [k \in S |-> f[k]]
ItemLists(S) == UNION {[1..n -> S] : n \in 0..MaxItems}

FullPatient ==
    [name |-> JStr("Max"), species |-> JStr("Dog"), breed |-> JStr("Beagle"),
     gender |-> JStr("male"), neutered |-> JBool(TRUE),
     date_of_birth |-> JStr("2019-04-01"), weight |-> JStr("12 kg"),
     microchip |-> JStr("985112")]
ProcObjects ==
    {EmptyObj,
     JObj([name |-> JStr("X-ray")]),
     JObj([name |-> JStr("X-ray"), quantity |-> JInt(2)]),
     JObj([name |-> JStr("Suture"), quantity |-> JInt(0)]),
     JObj([name |-> JStr("Suture"), quantity |-> JInt(-1)]),
     JObj([name |-> JStr("Suture"), quantity |-> JStr("two")]),
     JObj([name |-> JStr("Suture"), quantity |-> JBool(TRUE)]),
     JObj([name |-> JStr("Suture"), quantity |-> JNull])}
MedObjects ==
    {JObj([name |-> JStr("Rimadyl"), dosage |-> JStr("50 mg")]),
     JObj([name |-> JStr("Metacam")])}
RxObjects ==
    {JObj([name |-> JStr("Amoxicillin"), duration |-> JStr("7 days")]),
     JObj([dosage |-> JStr("1 tablet")])}
DiagObjects ==
    {JObj([name |-> JStr("Blood panel"), result |-> JStr("normal")]),
     JObj([name |-> JStr("Urinalysis")])}
FoodItems == {JStr("kibble"), JObj([name |-> JStr("Renal diet")])}

FullTreatmentItems ==
    [procedures |-> JList(<<JObj([name |-> JStr("X-ray")]),
                            JObj([name |-> JStr("Suture"), quantity |-> JInt(2)])>>),
     medicines |-> JList(<<JObj([name |-> JStr("Rimadyl"), dosage |-> JStr("50 mg")]),
                           JObj([name |-> JStr("Metacam")])>>),
     prescriptions |-> JList(<<JObj([name |-> JStr("Amoxicillin")]),
                               JObj([dosage |-> JStr("1 tablet")])>>),
     foods |-> JList(<<JStr("kibble"), JStr("Renal diet")>>),
     supplies |-> JList(<<JStr("cone"), JStr("bandage")>>)]
FullConsultation ==
    [date |-> JStr("2024-05-02"), time |-> JStr("10:30"),
     reason |-> JStr("Limping"), type |-> JStr("Outpatient"),
     clinical_notes |-> JList(<<JObj([note |-> JStr("Stable"), type |-> JStr("assessment")]),
                                JObj([note |-> JStr("Ate well")])>>),
     treatment_items |-> JObj(FullTreatmentItems),
     diagnostics |-> JList(<<JObj([name |-> JStr("Blood panel"), result |-> JStr("normal")]),
                             JObj([name |-> JStr("Urinalysis")])>>)]

\* the document whose only collection is the list l under treatment_items[k]
InTreatment(k, l) ==
    JObj([consultation |-> JObj([treatment_items |-> JObj([x \in {k} |-> JList(l)])])])

\* documents from which a subset of the keys is absent
PatientDocs == {JObj([patient |-> JObj(Sub(FullPatient, S))]) : S \in SUBSET DOMAIN FullPatient}
ConsultationDocs ==
    {JObj([consultation |-> JObj(Sub(FullConsultation, S))]) : S \in SUBSET DOMAIN FullConsultation}
TreatmentDocs ==
    {JObj([consultation |-> JObj([treatment_items |-> JObj(Sub(FullTreatmentItems, S))])]) :
        S \in SUBSET DOMAIN FullTreatmentItems}
TopLevelDocs ==
    {JObj(Sub([patient |-> JObj(FullPatient), consultation |-> JObj(FullConsultation)], S)) :
        S \in SUBSET {"patient", "consultation"}}
\* documents whose collections hold up to MaxItems elements, repeated or not
CollectionDocs ==
    {InTreatment("procedures", l) : l \in ItemLists(ProcObjects)}
    \cup {InTreatment("medicines", l) : l \in ItemLists(MedObjects)}
    \cup {InTreatment("prescriptions", l) : l \in ItemLists(RxObjects)}
    \cup {InTreatment("foods", l) : l \in ItemLists(FoodItems)}
    \cup {InTreatment("supplies", l) : l \in ItemLists(FoodItems)}
    \cup {JObj([consultation |-> JObj([diagnostics |-> JList(l)])]) : l \in ItemLists(DiagObjects)}

MapDocs ==
    {JObj([consultation |-> JObj([clinical_notes |-> JList(l)])]) : l \in NoteLists}
    \cup {JObj([patient |-> p, consultation |-> JObj([clinical_notes |-> JList(l)])]) :
             p \in PatientObjects, l \in NoteLists}
    \cup {EmptyObj, DocA, DocB, EmptyList, JNull,
          JObj([consultation |-> JNull]),
          JObj([consultation |-> JObj([clinical_notes |-> JStr("text")])])}
    \cup PatientDocs \cup ConsultationDocs \cup TreatmentDocs \cup TopLevelDocs
    \cup CollectionDocs

\* ConsultationData.from_dict(mapIn)
MapDocument ==
    /\ mapIn # None /\ mapOut = None
    /\ mapOut' = from_dict(mapIn)
    /\ UNCHANGED <<fs, dirs, pc, loc, handle, result, resp, loop, apiCalls, calls, snap,
                   mapIn, mapCtx, run, env, config>>

\* record.to_template_context() on the record from_dict returned
MapProject ==
    /\ mapOut # None /\ mapOut.ok /\ mapCtx = None
    /\ mapCtx' = to_template_context(mapOut.val)
    /\ UNCHANGED <<fs, dirs, pc, loc, handle, result, resp, loop, apiCalls, calls, snap,
                   mapIn, mapOut, run, env, config>>

\* ----------------------------------------------------------- specifications
InitCommon ==
    /\ pc = [c \in Callers |-> "idle"]
    /\ loc = [c \in Callers |-> InitLoc]
    /\ handle = [c \in Callers |-> None]
    /\ result = [c \in Callers |-> None]
    /\ resp = [c \in Callers |-> NoResp]
    /\ loop = Free
    /\ apiCalls = [c \in Callers |-> 0]
    /\ calls = 0
    /\ mapOut = None
    /\ mapCtx = None
    /\ run = None
    /\ config = None

\* the service after start-up: UPLOAD_DIR.mkdir(exist_ok=True)
Init ==
    /\ InitCommon
    /\ fs = <<>>
    /\ snap = <<>>
    /\ dirs = {UPLOAD_DIR}
    /\ mapIn = None
    /\ env = None

Next ==
    \E r \in Requests :
        \/ \E data \in GenerateBodies : GenerateStart(r, data)
        \/ GenerateRead(r)
        \/ GenerateFinally(r)
        \/ \E filename \in UploadNames : UploadReject(r, filename)
        \/ \E filename \in UploadNames, body \in UploadBodies : UploadOpen(r, filename, body)
        \/ UploadWrite(r)
        \/ UploadRead(r)
        \/ CleanupInputExists(r)
        \/ CleanupInputUnlink(r)
        \/ CleanupOutputExists(r)
        \/ CleanupOutputUnlink(r)
        \/ ProcessFileStep(r)

Spec == Init /\ [][Next]_vars

InitCli ==
    /\ InitCommon
    /\ fs = CliFiles
    /\ snap = CliFiles
    /\ dirs = {"data", "other"}
    /\ mapIn = None
    /\ env = None

SaveNotes == {strip(Completion(Messages(Rendered("system_message.j2", <<>>),
                                          Rendered("discharge_prompt.j2", <<>>)),
                                 FALSE))}
OutputDirs == {None, [t |-> "dir", v |-> "out"]}

NextCli ==
    \/ \E file_path \in CliPaths : CliCall(file_path)
    \/ \E note \in SaveNotes, input_file \in CliPaths, output_dir \in OutputDirs :
          SaveCall(note, input_file, output_dir)
    \/ ProcessFileStep(Cli)
    \/ \E argv \in CommandLines : MainStart(argv)
    \/ \E created \in BOOLEAN : MainCreate(created)
    \/ MainTemplateDir
    \/ \E printed \in BOOLEAN : MainEnd(printed)

SpecCli == InitCli /\ [][NextCli]_vars

InitMap ==
    /\ InitCommon
    /\ fs = <<>>
    /\ snap = <<>>
    /\ dirs = {}
    /\ mapIn \in MapDocs
    /\ env = None

NextMap == MapDocument \/ MapProject

SpecMap == InitMap /\ [][NextMap]_vars

\* a process at start-up, with its environment and its .env file
InitConfig ==
    /\ InitCommon
    /\ fs = <<>>
    /\ snap = <<>>
    /\ dirs = {}
    /\ mapIn = None
    /\ env \in [environ : Environs, dotenv : DotenvFiles]

NextConfig == Construct

SpecConfig == InitConfig /\ [][NextConfig]_vars

\* ================================================================== claims
OthersIdle(r) == \A q \in Requests \ {r} : pc[q] = "idle"

\* C1: once a request to /generate or /upload has been answered and its
\* cleanup has run, neither its temporary input file nor its output file
\* exists, on every exit path (stated for a request served alone).
C1_FilesRemovedOnEveryPath ==
    \A r \in Requests :
        (pc[r] = "done" /\ OthersIdle(r)) =>
            /\ ~exists(fs, loc[r].file_path)
            /\ ~exists(fs, output_path_of(loc[r].file_path, None))

\* the document a request sent and the text of its temporary input file
OwnDocument(r) == IF loc[r].kind = "generate" THEN loc[r].body ELSE loc[r].body.value
OwnText(r) == IF loc[r].kind = "generate" THEN JsonText(loc[r].body) ELSE loc[r].body
OwnMessages(r) ==
    LET mapped == from_dict(OwnDocument(r))
        context == IF mapped.ok
                   THEN ("custom_instruction" :> custom_instruction)
                            @@ to_template_context(mapped.val)
                   ELSE <<>>
    IN Messages(Rendered("system_message.j2", context),
                Rendered("discharge_prompt.j2", context))

\* C2: concurrent requests share no file: when a request loads its input file
\* the file holds what that request wrote, when process_file has returned the
\* output file holds that request's note, and a 200 response carries the note
\* generated from the request's own document.
C2_RequestsIsolated ==
    \A r \in Requests :
        /\ pc[r] = "pf_load" =>
              /\ exists(fs, loc[r].file_path)
              /\ fs[loc[r].file_path] = OwnText(r)
        /\ (pc[r] = "pf_done" /\ result[r].ok) =>
              /\ exists(fs, result[r].val)
              /\ fs[result[r].val] = JsonText(output_data(loc[r].discharge_note))
        /\ resp[r].status = 200 => resp[r].discharge_note.of = OwnMessages(r)

\* C3: an upload whose name does not end in ".json" is answered with status
\* 400 and the detail "Only JSON files are supported".
C3_NonJsonUploadGets400 ==
    \A r \in Requests :
        (pc[r] = "done" /\ loc[r].kind = "upload" /\ ~endswith_json(loc[r].file_path.name)) =>
            /\ resp[r].status = 400
            /\ resp[r].detail = OnlyJson

\* the clinical notes of the source document, when it has them as a list
SourceNotes(doc) ==
    IF /\ IsObj(doc) /\ "consultation" \in DOMAIN doc.v
       /\ IsObj(doc.v["consultation"])
       /\ "clinical_notes" \in DOMAIN doc.v["consultation"].v
       /\ doc.v["consultation"].v["clinical_notes"].t = "list"
    THEN doc.v["consultation"].v["clinical_notes"].v
    ELSE <<>>
IsEmptyValue(v) == v = JNull \/ v = JStr("")

\* C4: from_dict maps the type of a clinical note to "general" when the source
\* note omits type or gives an empty value for it, and keeps a non-empty type.
C4_NoteTypeDefault ==
    (mapOut # None /\ mapOut.ok) =>
        \A i \in DOMAIN SourceNotes(mapIn) :
            LET src == SourceNotes(mapIn)[i]
                mapped == mapOut.val.consultation.clinical_notes[i]
            IN IF "type" \notin DOMAIN src.v \/ IsEmptyValue(src.v["type"])
               THEN mapped.type = JStr("general")
               ELSE mapped.type = src.v["type"]

ProcessFileEnded == pc[Cli] = "pf_done" /\ loc[Cli].kind = "cli"

C6_MissingFileIsNotFound ==
    (ProcessFileEnded /\ ~exists(snap, loc[Cli].file_path)) =>
        /\ ~result[Cli].ok
        /\ result[Cli].exc.type = "FileNotFoundError"

\* C7: when process_file fails before persistence (the note was never
\* generated), no file is created or modified: the files are those that
\* were there when the call began.
C7_NoPersistenceOnEarlyFailure ==
    (ProcessFileEnded /\ ~result[Cli].ok /\ loc[Cli].discharge_note = None) =>
        fs = snap
C7_EarlyFailureAfterASave ==
    /\ ProcessFileEnded /\ ~result[Cli].ok /\ loc[Cli].discharge_note = None
    /\ loc[Cli].context # None
    /\ snap # CliFiles

\* C8: after a successful process_file, the file at the returned path decodes
\* to an object with the single key discharge_note, holding the text the
\* generation step returned in that call.
C8_EnvelopeHoldsTheNote ==
    (ProcessFileEnded /\ result[Cli].ok) =>
        /\ exists(fs, result[Cli].val)
        /\ json_load(fs[result[Cli].val]).ok
        /\ LET decoded == json_load(fs[result[Cli].val]).val IN
             /\ IsObj(decoded)
             /\ DOMAIN decoded.v = {"discharge_note"}
             /\ decoded.v["discharge_note"] = JStr(loc[Cli].discharge_note)
C8_Saved == ProcessFileEnded /\ result[Cli].ok /\ calls = 2

\* C9: save_discharge_note writes to and returns <output_dir>/<stem>_discharge.json,
\* output_dir being the argument when given and solution_dir otherwise; the
\* directory of the input path does not matter.
C9_OutputPath ==
    (pc[Cli] = "pf_done" /\ result[Cli].ok) =>
        /\ result[Cli].val.dir = IF loc[Cli].output_dir = None THEN "solution"
                                 ELSE loc[Cli].output_dir.v
        /\ result[Cli].val.name = discharge_name(stem(loc[Cli].file_path.name))
        /\ exists(fs, result[Cli].val)
        /\ fs[result[Cli].val] = JsonText(output_data(loc[Cli].discharge_note))
C9_SavedToGivenDir ==
    /\ pc[Cli] = "pf_done" /\ result[Cli].ok /\ loc[Cli].kind = "save"
    /\ loc[Cli].output_dir # None
    /\ loc[Cli].file_path.dir = "other"
    /\ result[Cli].val = PathOf("out", << <<"a", "_discharge">>, <<"json">> >>)

Rank(label) ==
    CASE label = "idle" -> 0
      [] label = "main_create" -> -2
      [] label = "main_tpl" -> -1
      [] label = "main_done" -> 11
      [] label = "pf_load" -> 1
      [] label = "pf_project" -> 2
      [] label = "gen_ctx" -> 3
      [] label = "gen_system" -> 4
      [] label = "gen_prompt" -> 5
      [] label = "gen_api" -> 6
      [] label = "save_mkdir" -> 7
      [] label = "save_open" -> 8
      [] label = "save_dump" -> 9
      [] label = "pf_done" -> 10

\* C10: within one process_file call the model API is invoked at most once,
\* a failed invocation ends the call at once, and no step runs a second time:
\* every step of a call moves it forward.
C10_NoRetry ==
    [][/\ apiCalls'[Cli] <= 1
       /\ calls' = calls => Rank(pc'[Cli]) > Rank(pc[Cli])
       /\ (pc[Cli] = "gen_api" /\ pc'[Cli] = "pf_done") =>
             (apiCalls'[Cli] = 1 /\ ~result'[Cli].ok)]_vars
C10_ModelCallFailed ==
    /\ ProcessFileEnded /\ ~result[Cli].ok
    /\ apiCalls[Cli] = 1
    /\ result[Cli].exc.context.context = APIError

\* ---------------------------------------------------------- mapper claims
\* A document of the expected shape: a JSON object in which every key that is
\* present holds an object (patient, consultation, treatment_items) or a list
\* of objects (clinical_notes, procedures, medicines, prescriptions,
\* diagnostics); any key may be absent.
ObjAt(o, k) == k \in DOMAIN o.v => o.v[k].t = "obj"
ObjListAt(o, k) ==
    k \in DOMAIN o.v =>
        /\ o.v[k].t = "list"
        /\ \A i \in DOMAIN o.v[k].v : o.v[k].v[i].t = "obj"
SrcConsultation(doc) == Get(doc, "consultation", JObj(<<>>))
SrcTreatment(doc) == Get(SrcConsultation(doc), "treatment_items", JObj(<<>>))
WellShaped(doc) ==
    /\ doc.t = "obj"
    /\ ObjAt(doc, "patient")
    /\ ObjAt(doc, "consultation")
    /\ ObjListAt(SrcConsultation(doc), "clinical_notes")
    /\ ObjListAt(SrcConsultation(doc), "diagnostics")
    /\ ObjAt(SrcConsultation(doc), "treatment_items")
    /\ ObjListAt(SrcTreatment(doc), "procedures")
    /\ ObjListAt(SrcTreatment(doc), "medicines")
    /\ ObjListAt(SrcTreatment(doc), "prescriptions")
Mapped == mapOut # None /\ WellShaped(mapIn)
PatientFields ==
    {"name", "species", "breed", "gender", "neutered", "date_of_birth", "weight",
     "microchip"}
IsSeq(x) == DOMAIN x = 1..Len(x)

\* C11: from_dict returns a fully populated record, without raising, for
\* every JSON object of the expected shape, whichever of the keys patient,
\* consultation, clinical_notes, treatment_items, diagnostics and of the
\* fields inside them are absent, the empty object included.
C11_NeverFailsOnMissingData ==
    Mapped =>
        /\ mapOut.ok
        /\ DOMAIN mapOut.val = {"patient", "consultation"}
        /\ DOMAIN mapOut.val.patient = PatientFields
        /\ DOMAIN mapOut.val.consultation =
              {"date", "time", "reason", "type", "clinical_notes", "treatment_items",
               "diagnostics"}
        /\ DOMAIN mapOut.val.consultation.treatment_items =
              {"procedures", "medicines", "prescriptions", "foods", "supplies"}
        /\ IsSeq(mapOut.val.consultation.clinical_notes)
        /\ IsSeq(mapOut.val.consultation.diagnostics)
        /\ IsSeq(mapOut.val.consultation.treatment_items.procedures)
        /\ IsSeq(mapOut.val.consultation.treatment_items.medicines)
        /\ IsSeq(mapOut.val.consultation.treatment_items.prescriptions)

\* the empty object has been mapped
C11_EmptyObjectMapped ==
    mapOut # None /\ mapIn = JObj(<<>>) /\ mapOut.ok

\* C12: every nested collection of the mapped record is an empty sequence
\* when its key is missing from the source, also when the enclosing
\* consultation or treatment_items object is itself missing.
C12_CollectionsDefaultEmpty ==
    Mapped =>
        /\ mapOut.ok
        /\ "clinical_notes" \notin DOMAIN SrcConsultation(mapIn).v =>
              mapOut.val.consultation.clinical_notes = <<>>
        /\ "diagnostics" \notin DOMAIN SrcConsultation(mapIn).v =>
              mapOut.val.consultation.diagnostics = <<>>
        /\ "procedures" \notin DOMAIN SrcTreatment(mapIn).v =>
              mapOut.val.consultation.treatment_items.procedures = <<>>
        /\ "medicines" \notin DOMAIN SrcTreatment(mapIn).v =>
              mapOut.val.consultation.treatment_items.medicines = <<>>
        /\ "prescriptions" \notin DOMAIN SrcTreatment(mapIn).v =>
              mapOut.val.consultation.treatment_items.prescriptions = <<>>
        /\ "foods" \notin DOMAIN SrcTreatment(mapIn).v =>
              mapOut.val.consultation.treatment_items.foods = JList(<<>>)
        /\ "supplies" \notin DOMAIN SrcTreatment(mapIn).v =>
              mapOut.val.consultation.treatment_items.supplies = JList(<<>>)

\* a document with a consultation but no treatment_items and no
\* clinical_notes has been mapped
C12_TreatmentItemsMissing ==
    /\ Mapped /\ mapOut.ok
    /\ "consultation" \in DOMAIN mapIn.v
    /\ DOMAIN mapIn.v.consultation.v = {"date", "diagnostics"}
    /\ mapOut.val.consultation.treatment_items.foods = JList(<<>>)
    /\ mapOut.val.consultation.clinical_notes = <<>>

\* C13: the mapped Patient has every field: a string field the source omits
\* is the empty string, an omitted neutered is false, an omitted microchip is
\* none; the consultation's date, time, reason and type default to the empty
\* string in the same way.
C13_ScalarDefaults ==
    Mapped =>
        /\ mapOut.ok
        /\ DOMAIN mapOut.val.patient = PatientFields
        /\ \A k \in {"name", "species", "breed", "gender", "date_of_birth", "weight"} :
              k \notin DOMAIN Get(mapIn, "patient", JObj(<<>>)).v =>
                  mapOut.val.patient[k] = JStr("")
        /\ "neutered" \notin DOMAIN Get(mapIn, "patient", JObj(<<>>)).v =>
              mapOut.val.patient.neutered = JBool(FALSE)
        /\ "microchip" \notin DOMAIN Get(mapIn, "patient", JObj(<<>>)).v =>
              mapOut.val.patient.microchip = JNull
        /\ \A k \in {"date", "time", "reason", "type"} :
              k \notin DOMAIN SrcConsultation(mapIn).v =>
                  mapOut.val.consultation[k] = JStr("")

\* a patient given by its name alone has been mapped
C13_PatientWithNameOnly ==
    /\ Mapped /\ mapOut.ok
    /\ "patient" \in DOMAIN mapIn.v
    /\ DOMAIN mapIn.v.patient.v = {"name"}
    /\ mapOut.val.patient.name = JStr("Max")
    /\ mapOut.val.patient.weight = JStr("")

\* the procedures of the source document
SrcProcedures(doc) == Get(SrcTreatment(doc), "procedures", JList(<<>>)).v

\* C14: the mapped quantity of a procedure is exactly 1 when the source omits
\* quantity, and otherwise the supplied value as it is, whatever it is.
C14_QuantityDefault ==
    Mapped =>
        /\ mapOut.ok
        /\ Len(mapOut.val.consultation.treatment_items.procedures)
              = Len(SrcProcedures(mapIn))
        /\ \A i \in DOMAIN SrcProcedures(mapIn) :
              mapOut.val.consultation.treatment_items.procedures[i].quantity =
                  IF "quantity" \in DOMAIN SrcProcedures(mapIn)[i].v
                  THEN SrcProcedures(mapIn)[i].v.quantity
                  ELSE JInt(1)

\* procedures with no quantity and with a quantity that is no positive
\* integer have been mapped
C14_OddQuantitiesMapped ==
    /\ Mapped /\ mapOut.ok
    /\ Len(SrcProcedures(mapIn)) = 2
    /\ "quantity" \notin DOMAIN SrcProcedures(mapIn)[1].v
    /\ mapOut.val.consultation.treatment_items.procedures[1].quantity = JInt(1)
    /\ mapOut.val.consultation.treatment_items.procedures[2].quantity = JStr("two")

\* C15: each mapped collection has the length of its source list and its i-th
\* element is mapped from the i-th source element: order is preserved and
\* nothing is deduplicated, dropped or sorted.
C15_OrderPreserved ==
    Mapped =>
        /\ mapOut.ok
        /\ LET notes == Get(SrcConsultation(mapIn), "clinical_notes", JList(<<>>)).v
               diags == Get(SrcConsultation(mapIn), "diagnostics", JList(<<>>)).v
               meds == Get(SrcTreatment(mapIn), "medicines", JList(<<>>)).v
               rxs == Get(SrcTreatment(mapIn), "prescriptions", JList(<<>>)).v
               c == mapOut.val.consultation
           IN
           /\ Len(c.clinical_notes) = Len(notes)
           /\ \A i \in DOMAIN notes : c.clinical_notes[i] = ClinicalNote(notes[i])
           /\ Len(c.diagnostics) = Len(diags)
           /\ \A i \in DOMAIN diags : c.diagnostics[i] = Diagnostic(diags[i])
           /\ Len(c.treatment_items.procedures) = Len(SrcProcedures(mapIn))
           /\ \A i \in DOMAIN SrcProcedures(mapIn) :
                 c.treatment_items.procedures[i] = Procedure(SrcProcedures(mapIn)[i])
           /\ Len(c.treatment_items.medicines) = Len(meds)
           /\ \A i \in DOMAIN meds : c.treatment_items.medicines[i] = Medicine(meds[i])
           /\ Len(c.treatment_items.prescriptions) = Len(rxs)
           /\ \A i \in DOMAIN rxs : c.treatment_items.prescriptions[i] = Prescription(rxs[i])
           /\ c.treatment_items.foods = Get(SrcTreatment(mapIn), "foods", JList(<<>>))
           /\ c.treatment_items.supplies = Get(SrcTreatment(mapIn), "supplies", JList(<<>>))

\* a list of two different medicines has been mapped
C15_TwoDifferentMedicines ==
    /\ Mapped /\ mapOut.ok
    /\ Len(mapOut.val.consultation.treatment_items.medicines) = 2
    /\ mapOut.val.consultation.treatment_items.medicines[1].name = JStr("Metacam")
    /\ mapOut.val.consultation.treatment_items.medicines[2].name = JStr("Rimadyl")

\* C17: to_template_context returns a mapping with exactly the slots patient,
\* consultation, clinical_notes, procedures, medicines, prescriptions and
\* diagnostics, each equal to the corresponding part of the mapped record.
C17_ContextSlots ==
    mapCtx # None =>
        /\ DOMAIN mapCtx = {"patient", "consultation", "clinical_notes", "procedures",
                            "medicines", "prescriptions", "diagnostics"}
        /\ mapCtx.patient = mapOut.val.patient
        /\ mapCtx.consultation = mapOut.val.consultation
        /\ mapCtx.clinical_notes = mapOut.val.consultation.clinical_notes
        /\ mapCtx.procedures = mapOut.val.consultation.treatment_items.procedures
        /\ mapCtx.medicines = mapOut.val.consultation.treatment_items.medicines
        /\ mapCtx.prescriptions = mapOut.val.consultation.treatment_items.prescriptions
        /\ mapCtx.diagnostics = mapOut.val.consultation.diagnostics

\* a record with two procedures and two medicines has been projected
C17_FullRecordProjected ==
    /\ mapCtx # None
    /\ Len(mapCtx.procedures) = 2
    /\ Len(mapCtx.medicines) = 2
    /\ mapCtx.procedures # mapCtx.medicines

\* ------------------------------------------------------ command-line claims
MainEnded == pc[Cli] = "main_done"
Confirmation(output_path) ==
    Msg("Discharge note successfully generated and saved to {}", <<output_path>>)

\* C18 as stated: main() ends with exit code 0 and a confirmation naming the
\* output path when the note was generated and saved, and with exit code 1 and
\* an "Error: <message>" line on standard error on any failure; no other exit
\* code is produced.
C18_ExitCodes ==
    MainEnded =>
        /\ run.code \in {JInt(0), JInt(1)}
        /\ (result[Cli] # None /\ result[Cli].ok) =>
              /\ run.code = JInt(0)
              /\ run.stdout = Confirmation(result[Cli].val)
        /\ (result[Cli] = None \/ ~result[Cli].ok) =>
              /\ run.code = JInt(1)
              /\ run.stderr # None
              /\ run.stderr.fmt = "Error: {}"

\* C18 as amended: on a command line that parse_args accepts, main() ends
\* with 0 or 1: with 0 only when the note was generated and saved and the
\* confirmation naming the output path was printed, and with 1 and an
\* "Error: <message>" line on standard error whenever generator construction,
\* the template-directory update, process_file or the printing of the
\* confirmation fails.
C18_ExitCodesOnAcceptedCommandLine ==
    (MainEnded /\ run.args # None) =>
        /\ run.code \in {JInt(0), JInt(1)}
        /\ run.code = JInt(0) =>
              /\ result[Cli] # None /\ result[Cli].ok
              /\ exists(fs, result[Cli].val)
              /\ run.stdout = Confirmation(result[Cli].val)
              /\ run.stderr = None
        /\ run.code = JInt(1) =>
              /\ run.stdout = None
              /\ run.stderr # None
              /\ run.stderr.fmt = "Error: {}"
              /\ (result[Cli] # None /\ ~result[Cli].ok) =>
                    run.stderr.args = <<result[Cli].exc.msg>>
        /\ (result[Cli] = None \/ ~result[Cli].ok) => run.code = JInt(1)

\* a run whose process_file call failed on a missing file has ended
C18_RunFailedInProcessFile ==
    /\ MainEnded /\ run.args # None
    /\ result[Cli] # None /\ ~result[Cli].ok
    /\ ~exists(fs, run.args.file)
    /\ run.code = JInt(1)

\* C19: a run given --template-dir d switches the generator's template
\* engine to d before process_file is called, so that the file is processed
\* with the templates of d.
C19_TemplateDirSwitched ==
    (MainEnded /\ run.args # None /\ run.templates_dir # None
        /\ run.args.template_dir # None) =>
        /\ run.templates_dir = run.args.template_dir
        /\ loc[Cli].file_path = run.args.file
        /\ result[Cli] # None

\* ------------------------------------------------------ configuration claims
\* the credential the process has once load_dotenv() has run
NoCredential ==
    \/ "OPENAI_API_KEY" \notin DOMAIN env.environ
    \/ env.environ["OPENAI_API_KEY"] = ""
\* TEMPERATURE and MAX_TOKENS, when set, are a float and an int literal
NumbersParse ==
    /\ "TEMPERATURE" \in DOMAIN env.environ =>
          env.environ["TEMPERATURE"] \in {"0.7", "0.2", "800", "100"}
    /\ "MAX_TOKENS" \in DOMAIN env.environ =>
          env.environ["MAX_TOKENS"] \in {"800", "100"}
RefusedForCredential ==
    /\ ~config.ok
    /\ config.exc.type = "ValueError"
    /\ config.exc.msg = ApiKeyNotSet

\* C20 as stated: ConfigurationManager() fails with a ValueError naming
\* OPENAI_API_KEY whenever the credential is absent or empty, and succeeds
\* with a credential present.
C20_CredentialRequired ==
    config # None =>
        /\ NoCredential => RefusedForCredential
        /\ ~NoCredential => config.ok

\* C20 as amended: provided TEMPERATURE and MAX_TOKENS, when set, parse as a
\* float and an int, ConfigurationManager() fails with a ValueError naming
\* OPENAI_API_KEY whenever the credential is absent or empty and succeeds
\* with a credential present; when one of them does not parse, construction
\* fails with the ValueError of that conversion, credential or not.
C20_CredentialRequiredWhenNumbersParse ==
    config # None =>
        /\ (NumbersParse /\ NoCredential) => RefusedForCredential
        /\ (NumbersParse /\ ~NoCredential) =>
              /\ config.ok
              /\ config.val.api_key = JStr(env.environ["OPENAI_API_KEY"])
        /\ ~NumbersParse =>
              /\ ~config.ok
              /\ config.exc.type = "ValueError"
              /\ config.exc.msg # ApiKeyNotSet

\* construction was refused for a credential set to the empty string
C20_EmptyCredentialRefused ==
    /\ config # None /\ ~config.ok
    /\ NumbersParse
    /\ "OPENAI_API_KEY" \in DOMAIN env.environ
    /\ env.environ["OPENAI_API_KEY"] = ""

\* ---------------------------------------------------------------- HTTP claims
\* C21: POST /generate answers 200 with the note text process_file persisted
\* for that request when processing succeeds, and 500 with the error message
\* in the detail field when process_file raises.
C21_GenerateResponse ==
    \A r \in Requests :
        (loc[r].kind = "generate" /\ pc[r] \in {"g_finally", "done"}) =>
            /\ result[r].ok =>
                  /\ resp[r] = [status |-> 200, discharge_note |-> loc[r].discharge_note]
                  /\ loc[r].output_path = result[r].val
                  /\ pc[r] = "g_finally" =>
                        /\ exists(fs, result[r].val)
                        /\ fs[result[r].val] =
                              JsonText(JObj([discharge_note |->
                                                JStr(loc[r].discharge_note)]))
            /\ ~result[r].ok =>
                  resp[r] = [status |-> 500, detail |-> result[r].exc.msg]

\* one /generate request was answered 200 and another 500
C21_OneServedOneFailed ==
    \E r, q \in Requests :
        /\ loc[r].kind = "generate" /\ pc[r] = "done" /\ resp[r].status = 200
        /\ loc[q].kind = "generate" /\ pc[q] = "done" /\ resp[q].status = 500

\* C22: cleanup_files never raises: it ends silently when a file does not
\* exist, a deletion error is logged and swallowed, the response given before
\* it stays as it was, and when both files exist and can be deleted (no other
\* request around) neither exists after it returned.
C22_CleanupNeverRaises ==
    /\ [](\A r \in Requests :
            loc[r].cleanup # None =>
                /\ pc[r] = "done"
                /\ loc[r].cleanup.raised = None
                /\ resp[r].status = 200
                /\ OthersIdle(r) =>
                      /\ loc[r].cleanup.logged = None
                      /\ ~exists(fs, loc[r].file_path)
                      /\ ~exists(fs, loc[r].output_path))
    /\ [][\A r \in Requests :
            /\ (pc[r] \in {"cl_in_exists", "cl_out_exists"} /\ loc'[r].cleanup # None) =>
                  loc'[r].cleanup = [logged |-> None, raised |-> None]
            /\ (loc'[r].cleanup # None /\ loc'[r].cleanup.logged # None) =>
                  loc'[r].cleanup.logged.fmt = "Error cleaning up files: {}"]_vars

\* a cleanup whose deletion failed, the file having gone since it was seen,
\* has returned
C22_DeletionErrorSwallowed ==
    \E r \in Requests :
        /\ loc[r].cleanup # None
        /\ loc[r].cleanup.logged # None
        /\ pc[r] = "done"

\* ------------------------------------------------- further command-line claims
\* C23: a run given --output-dir D saves the discharge-note file in D; a run
\* without the option saves it in the default solution directory.
C23_OutputDirHonoured ==
    (MainEnded /\ run.args # None /\ run.code = JInt(0)) =>
        /\ exists(fs, result[Cli].val)
        /\ result[Cli].val.dir = IF run.args.output_dir = None THEN "solution"
                                 ELSE run.args.output_dir.v

\* ------------------------------------------------------ process_file claims
\* a process_file call has ended in load_consultation_data; what that raised
\* is the exception process_file wrapped
ProcessFileCall == pc[Cli] = "pf_done" /\ loc[Cli].kind \in {"cli", "main"}
LoadFailed == ProcessFileCall /\ ~result[Cli].ok /\ loc[Cli].consultation_data = None

\* C26: load_consultation_data classifies every failure into one outcome: a
\* missing file is FileNotFoundError "not found", a file that is not valid
\* JSON is ValueError "contains invalid JSON", anything else (a document the
\* mapper cannot process, a file that cannot be decoded as text) is ValueError
\* "Error loading consultation data"; no other exception type escapes, and a
\* file holding a JSON object loads.
C26_LoadFailuresClassified ==
    /\ LoadFailed =>
          /\ result[Cli].exc.context.type \in {"FileNotFoundError", "ValueError"}
          /\ ~exists(snap, loc[Cli].file_path) =>
                /\ result[Cli].exc.context.type = "FileNotFoundError"
                /\ result[Cli].exc.context.msg.fmt = "File {} not found."
                /\ result[Cli].exc.context.msg.args = <<loc[Cli].file_path>>
          /\ exists(snap, loc[Cli].file_path) =>
                /\ result[Cli].exc.context.type = "ValueError"
                /\ result[Cli].exc.context.msg.fmt =
                      IF snap[loc[Cli].file_path].raw \in {"json", "bytes"}
                      THEN "Error loading consultation data: {}"
                      ELSE "File {} contains invalid JSON."
    /\ (ProcessFileCall /\ exists(snap, loc[Cli].file_path)
          /\ snap[loc[Cli].file_path].raw = "json"
          /\ snap[loc[Cli].file_path].value.t = "obj") =>
              loc[Cli].consultation_data # None

\* a call on a file whose document is a list, not an object, has failed
C26_MapperFailureClassified ==
    /\ LoadFailed
    /\ exists(snap, loc[Cli].file_path)
    /\ snap[loc[Cli].file_path] = JsonText(JList(<<>>))
    /\ result[Cli].exc.context.context.type = "AttributeError"

\* a direct call of save_discharge_note has ended
SaveCallEnded == pc[Cli] = "pf_done" /\ loc[Cli].kind = "save"

\* C27: every failure of save_discharge_note (the output directory cannot be
\* created, the output file cannot be opened, writing fails) is raised as a
\* ValueError whose message holds "Error saving discharge note"; no other
\* exception type escapes.
C27_SaveFailureIsValueError ==
    (SaveCallEnded /\ ~result[Cli].ok) =>
        /\ result[Cli].exc.type = "ValueError"
        /\ result[Cli].exc.msg.fmt = "Error saving discharge note: {}"

\* the step that follows each step of a process_file call that goes on
NextStep(label) ==
    CASE label = "pf_load" -> "pf_project"
      [] label = "pf_project" -> "gen_ctx"
      [] label = "gen_ctx" -> "gen_system"
      [] label = "gen_system" -> "gen_prompt"
      [] label = "gen_prompt" -> "gen_api"
      [] label = "gen_api" -> "save_mkdir"
      [] label = "save_mkdir" -> "save_open"
      [] label = "save_open" -> "save_dump"
      [] label = "save_dump" -> "pf_done"
InCall(label) ==
    label \in {"pf_load", "pf_project", "gen_ctx", "gen_system", "gen_prompt", "gen_api",
               "save_mkdir", "save_open", "save_dump"}
WithInstruction(context) == ("custom_instruction" :> JStr("")) @@ context

\* C24: in a process_file call the steps load, project, generate, save run in
\* that order, each at most once, a step only if every earlier one succeeded;
\* the context given to generation is the one projected from the loaded
\* record, the note given to save_discharge_note is the one generation
\* returned in this call, and the returned string is the saved path.
C24_StepsInOrder ==
    [][(loc'[Cli].kind \in {"cli", "main"} /\ InCall(pc[Cli]) /\ pc'[Cli] # pc[Cli]) =>
          /\ pc'[Cli] \in {NextStep(pc[Cli]), "pf_done"}
          /\ (pc'[Cli] = "pf_done" /\ pc[Cli] # "save_dump") => ~result'[Cli].ok
          /\ pc'[Cli] # "pf_done" => result'[Cli] = None
          /\ pc'[Cli] = "pf_project" => loc'[Cli].consultation_data # None
          /\ pc'[Cli] = "gen_ctx" =>
                loc'[Cli].context = to_template_context(loc'[Cli].consultation_data)
          /\ pc'[Cli] \in {"gen_system", "gen_prompt", "gen_api"} =>
                /\ loc'[Cli].context =
                      WithInstruction(to_template_context(loc'[Cli].consultation_data))
                /\ loc'[Cli].discharge_note = None
          /\ pc'[Cli] = "save_mkdir" =>
                /\ loc[Cli].discharge_note = None
                /\ loc'[Cli].discharge_note # None
                /\ loc'[Cli].discharge_note.of[2].content.ctx =
                      WithInstruction(to_template_context(loc'[Cli].consultation_data))
          /\ (pc'[Cli] = "pf_done" /\ result'[Cli].ok) =>
                /\ result'[Cli].val = loc'[Cli].output_path
                /\ fs'[result'[Cli].val] =
                      JsonText(JObj([discharge_note |-> JStr(loc[Cli].discharge_note)]))]_vars

\* a call on a file that holds a document with a clinical note has returned
C24_CallReturned ==
    /\ ProcessFileCall /\ result[Cli].ok
    /\ Len(loc[Cli].context.clinical_notes) = 1
    /\ loc[Cli].discharge_note.of[2].content.ctx = loc[Cli].context

\* C25: generate_discharge_note adds the slot custom_instruction to the
\* context, then renders system_message.j2 and then discharge_prompt.j2 from
\* that context, then calls the model exactly once with the system text as
\* the system message followed by the prompt as the user message, and returns
\* the response text stripped.
C25_GenerationSteps ==
    (loc[Cli].kind \in {"cli", "main"} /\ loc[Cli].context # None) =>
        /\ pc[Cli] \in {"gen_system", "gen_prompt", "gen_api"} =>
              /\ "custom_instruction" \in DOMAIN loc[Cli].context
              /\ loc[Cli].context["custom_instruction"] = JStr("")
        /\ pc[Cli] \in {"gen_ctx", "gen_system"} => loc[Cli].system_message = None
        /\ loc[Cli].system_message # None =>
              loc[Cli].system_message = [tpl |-> "system_message.j2", ctx |-> loc[Cli].context]
        /\ loc[Cli].prompt # None =>
              /\ loc[Cli].system_message # None
              /\ loc[Cli].prompt = [tpl |-> "discharge_prompt.j2", ctx |-> loc[Cli].context]
        /\ apiCalls[Cli] <= 1
        /\ apiCalls[Cli] = 1 => loc[Cli].prompt # None
        /\ loc[Cli].discharge_note # None =>
              /\ apiCalls[Cli] = 1
              /\ loc[Cli].discharge_note =
                    [of |-> <<[role |-> "system", content |-> loc[Cli].system_message],
                              [role |-> "user", content |-> loc[Cli].prompt]>>,
                     padded |-> FALSE]

\* generation has returned a note and the call has gone on to save it
C25_NoteGenerated ==
    /\ loc[Cli].kind \in {"cli", "main"}
    /\ pc[Cli] = "save_mkdir"
    /\ loc[Cli].discharge_note # None
    /\ apiCalls[Cli] = 1

\* a process_file call has ended in the rendering of one of the two templates
RenderFailed ==
    /\ ProcessFileCall /\ ~result[Cli].ok
    /\ "custom_instruction" \in DOMAIN loc[Cli].context
    /\ loc[Cli].prompt = None

\* C29: when rendering either template fails, generate_discharge_note fails
\* with an "Error generating discharge note" exception, the model API is not
\* called in that process_file call and no note is saved.
C29_TemplateFailureCostsNoCall ==
    RenderFailed =>
        /\ result[Cli].exc.context.type = "Exception"
        /\ result[Cli].exc.context.msg.fmt = "Error generating discharge note: {}"
        /\ result[Cli].exc.context.context.type \in {"TemplateNotFound", "UndefinedError"}
        /\ apiCalls[Cli] = 0
        /\ loc[Cli].discharge_note = None
        /\ fs = snap

\* the prompt template failed to render after the system template rendered
C29_PromptRenderFailed ==
    /\ RenderFailed
    /\ loc[Cli].system_message # None

\* C30: process_file calls whose input paths differ only in directory or
\* extension resolve to the same output path, and a later successful save
\* overwrites the earlier one: the file then holds exactly the later call's
\* note, and no other file has changed.
C30_LaterSaveOverwrites ==
    (ProcessFileCall /\ result[Cli].ok) =>
        /\ loc[Cli].file_path \in {PathOf("data", << <<"a">>, <<"json">> >>),
                                   PathOf("other", << <<"a">>, <<"txt">> >>)} =>
              result[Cli].val = PathOf("solution", << <<"a", "_discharge">>, <<"json">> >>)
        /\ DOMAIN fs = DOMAIN snap \cup {result[Cli].val}
        /\ fs[result[Cli].val] =
              JsonText(JObj([discharge_note |-> JStr(loc[Cli].discharge_note)]))
        /\ \A p \in DOMAIN snap \ {result[Cli].val} : fs[p] = snap[p]

\* a call on other/a.txt has saved over the note an earlier call on
\* data/a.json had saved
C30_SecondCallOverwrote ==
    /\ ProcessFileCall /\ result[Cli].ok
    /\ loc[Cli].file_path = PathOf("other", << <<"a">>, <<"txt">> >>)
    /\ exists(snap, result[Cli].val)
    /\ snap[result[Cli].val] # fs[result[Cli].val]
    /\ LET context == WithInstruction(to_template_context(from_dict(DocA).val)) IN
         snap[result[Cli].val] =
            JsonText(output_data(strip(Completion(
                Messages(Rendered("system_message.j2", context),
                         Rendered("discharge_prompt.j2", context)), FALSE))))

\* an upload request whose file name does not end in ".json"
RejectedUpload(r) ==
    loc[r].kind = "upload" /\ ~endswith_json(loc[r].file_path.name)

\* C28: the file-name check of POST /upload happens before any effect: for an
\* upload whose name does not end in ".json" no file is written to the upload
\* directory and process_file is never invoked for that request.
C28_RejectedUploadHasNoEffect ==
    /\ [](\A r \in Requests :
            RejectedUpload(r) =>
                /\ pc[r] = "done"
                /\ result[r] = None
                /\ apiCalls[r] = 0
                /\ handle[r] = None
                /\ loc[r].consultation_data = None
                /\ ~exists(fs, loc[r].file_path))
    /\ [][\A r \in Requests :
            (pc[r] = "idle" /\ pc'[r] # "idle" /\ RejectedUpload(r)') =>
                /\ fs' = fs
                /\ dirs' = dirs
                /\ handle' = handle]_vars

\* an upload has been refused while an accepted upload has its file on disk
C28_RefusedBesideAcceptedUpload ==
    \E r, q \in Requests :
        /\ RejectedUpload(r) /\ pc[r] = "done"
        /\ loc[q].kind = "upload" /\ pc[q] = "pf_load"
        /\ exists(fs, loc[q].file_path)

====
